---- MODULE Spec2Model ----
(***************************************************************************)
(* json-flat-parser: the flat (pointer, value) representation of a JSON   *)
(* document, depth-bounded parsing, JSONParser::change_depth and           *)
(* JSONParser::filter_non_null_column (src/src/lib.rs).                    *)
(*                                                                         *)
(* A Rust String / &str is a sequence of one-character strings, so that   *)
(* slicing, concatenation, rfind and re-lexing of captured raw text are   *)
(* computed and not assumed.  Option<T> is <<>> (None) or <<x>> (Some(x)). *)
(* Result<T, String> is [ok |-> TRUE, val |-> x] or [ok |-> FALSE].        *)
(*                                                                         *)
(* lexer.rs and parser.rs are not part of the available sources: the      *)
(* lexer and the parser are modelled from spec.md, sections 4.2 and 4.3.   *)
(***************************************************************************)
EXTENDS Integers, Sequences, FiniteSets

VARIABLES
    op,                \* the last operation performed
    input,             \* JSONParser.parser: the text handed to JSONParser::new
    first_options,     \* the ParseOptions given to JSONParser::parse
    result,            \* the current Result<ParseResult, String> (NoResult before any)
    previous,          \* the ParseResult moved into the last change_depth
    requested,         \* the ParseOptions given to the last change_depth
    origin,            \* "parse": result comes from JSONParser::parse; "built": from a struct literal
    steps,             \* number of change_depth calls since the result was obtained
    all_keep,          \* every ParseOptions used so far had keep_object_raw_data = true
    arith,             \* exact (unbounded) values of the u8 expressions evaluated by the last change_depth
    rows,              \* filter_non_null_column: previous_parse_result
    prefix,            \* filter_non_null_column: prefix
    non_null_columns,  \* filter_non_null_column: non_null_columns
    filtered           \* filter_non_null_column: the returned Vec (NoResult before any call)

vars == <<op, input, first_options, result, previous, requested, origin, steps,
          all_keep, arith, rows, prefix, non_null_columns, filtered>>

----------------------------------------------------------------------------
(* Bounds of the model *)

\* largest depth limit, other than the full u8 limit, offered to parse and change_depth
MaxDepthOpt == 3
\* number of change_depth calls applied to one result
MaxSteps == 2
\* number of rows handed to filter_non_null_column
MaxRows == 2

\* u8::MAX, the width of ParseOptions::max_depth and PointerKey::depth
MaxU8 == 255

----------------------------------------------------------------------------
(* Option, Result, u8 arithmetic *)

None == <<>>
Some(x) == <<x>>

Ok(x) == [ok |-> TRUE, val |-> x]
Err == [ok |-> FALSE]
NoResult == [ok |-> FALSE, none |-> TRUE]

\* u8 addition and subtraction as a release build computes them
Add8(a, b) == (a + b) % (MaxU8 + 1)
Sub8(a, b) == (a - b + MaxU8 + 1) % (MaxU8 + 1)

Q == "\""

\* usize::to_string
RECURSIVE to_string(_)
to_string(n) ==
    LET d == <<"0", "1", "2", "3", "4", "5", "6", "7", "8", "9">>
    IN  IF n < 10 THEN <<d[n + 1]>> ELSE to_string(n \div 10) \o <<d[(n % 10) + 1]>>

\* macro concat_string!
RECURSIVE concat_string(_)
concat_string(parts) ==
    IF parts = <<>> THEN <<>> ELSE Head(parts) \o concat_string(Tail(parts))

----------------------------------------------------------------------------
(* Data model *)

Array(len) == [t |-> "Array", len |-> len]
Object == [t |-> "Object", len |-> 0]
Number == [t |-> "Number", len |-> 0]
String == [t |-> "String", len |-> 0]
Bool == [t |-> "Bool", len |-> 0]
Null == [t |-> "Null", len |-> 0]

PointerKey(pointer, value_type, depth, index, position) ==
    [pointer |-> pointer, value_type |-> value_type, depth |-> depth,
     index |-> index, position |-> position]

\* PointerKey::from_pointer
from_pointer(pointer, value_type, depth, position) ==
    PointerKey(pointer, value_type, depth, 0, position)

ParseOptions(parse_array, keep_object_raw_data, max_depth, start_parse_at, pfx) ==
    [parse_array |-> parse_array, keep_object_raw_data |-> keep_object_raw_data,
     max_depth |-> max_depth, start_parse_at |-> start_parse_at, prefix |-> pfx]

ParseResult(json, max_json_depth, parsing_max_depth, started_parsing_at, parsing_prefix) ==
    [json |-> json, max_json_depth |-> max_json_depth,
     parsing_max_depth |-> parsing_max_depth,
     started_parsing_at |-> started_parsing_at, parsing_prefix |-> parsing_prefix]

JsonArrayEntries(entries, index) == [entries |-> entries, index |-> index]

\* index of the last occurrence of c in s, as Option<usize> (0-based)
RECURSIVE rfind(_, _)
rfind(s, c) ==
    IF s = <<>> THEN None
    ELSE IF s[Len(s)] = c THEN Some(Len(s) - 1)
    ELSE rfind(SubSeq(s, 1, Len(s) - 1), c)

ParentAtRoot == <<"/">>

\* variant: the truncation keeps the last '/'
parent_keeping_slash(pointer) ==
    LET found == rfind(pointer, "/")
        index == IF found = None THEN 0 ELSE found[1]
    IN  IF index = 0 THEN ParentAtRoot ELSE SubSeq(pointer, 1, index + 1)

\* PointerKey::parent
parent(pointer) ==
    LET found == rfind(pointer, "/")
        index == IF found = None THEN 0 ELSE found[1]
    IN  IF index = 0 THEN ParentAtRoot ELSE SubSeq(pointer, 1, index)

----------------------------------------------------------------------------
(* Lexer (spec.md 4.2) *)

Whitespace == {" ", "\t", "\r", "\n"}
Punct == {"{", "}", "[", "]", ",", ":"}
Digits == {"0", "1", "2", "3", "4", "5", "6", "7", "8", "9"}
Letters == {"a", "e", "f", "l", "n", "r", "s", "t", "u"}

Token(kind, s, e, v) == [kind |-> kind, s |-> s, e |-> e, v |-> v]

\* first index at or after i whose character is not in class
RECURSIVE ScanWhile(_, _, _)
ScanWhile(text, i, class) ==
    IF i <= Len(text) /\ text[i] \in class THEN ScanWhile(text, i + 1, class) ELSE i

\* index of the closing quote at or after i, 0 when the string is unterminated
RECURSIVE FindQuote(_, _)
FindQuote(text, i) ==
    IF i > Len(text) THEN 0
    ELSE IF text[i] = Q THEN i
    ELSE FindQuote(text, i + 1)

Literal(w) ==
    IF w = <<"n", "u", "l", "l">> THEN "null"
    ELSE IF w \in {<<"t", "r", "u", "e">>, <<"f", "a", "l", "s", "e">>} THEN "bool"
    ELSE "bad"

RECURSIVE LexFrom(_, _, _)
LexFrom(text, i, acc) ==
    IF i > Len(text) THEN [ok |-> TRUE, toks |-> Append(acc, Token("eof", i, i, <<>>))]
    ELSE LET c == text[i] IN
        IF c \in Whitespace THEN LexFrom(text, i + 1, acc)
        ELSE IF c \in Punct THEN LexFrom(text, i + 1, Append(acc, Token(c, i, i, <<>>)))
        ELSE IF c = Q THEN
            LET j == FindQuote(text, i + 1) IN
            IF j = 0 THEN [ok |-> FALSE, toks |-> acc]
            ELSE LexFrom(text, j + 1,
                         Append(acc, Token("str", i, j, SubSeq(text, i + 1, j - 1))))
        ELSE IF c \in Digits THEN
            LET j == ScanWhile(text, i, Digits) IN
            LexFrom(text, j, Append(acc, Token("num", i, j - 1, SubSeq(text, i, j - 1))))
        ELSE IF c \in Letters THEN
            LET j == ScanWhile(text, i, Letters)
                w == SubSeq(text, i, j - 1)
            IN  IF Literal(w) = "bad" THEN [ok |-> FALSE, toks |-> acc]
                ELSE LexFrom(text, j, Append(acc, Token(Literal(w), i, j - 1, w)))
        ELSE [ok |-> FALSE, toks |-> acc]

\* Lexer::new followed by the whole token stream
Lexer(text) == LexFrom(text, 1, <<>>)

----------------------------------------------------------------------------
(* Parser (spec.md 4.3) *)

\* index of the token closing the container whose opening token precedes j
\* (level counts the containers still open), 0 when it is never closed
RECURSIVE MatchFrom(_, _, _)
MatchFrom(toks, j, level) ==
    IF j > Len(toks) \/ toks[j].kind = "eof" THEN 0
    ELSE IF toks[j].kind \in {"{", "["} THEN MatchFrom(toks, j + 1, level + 1)
    ELSE IF toks[j].kind \in {"}", "]"} THEN
        IF level = 1 THEN j ELSE MatchFrom(toks, j + 1, level - 1)
    ELSE MatchFrom(toks, j + 1, level)

MatchClose(toks, i) == MatchFrom(toks, i + 1, 1)

\* source[start..end] of the container between tokens i and j
RawSpan(cx, i, j) == SubSeq(cx.text, cx.toks[i].s, cx.toks[j].e)

\* deepest nesting of containers in a token stream
RECURSIVE MaxNesting(_, _, _, _)
MaxNesting(toks, j, level, best) ==
    IF j > Len(toks) THEN best
    ELSE IF toks[j].kind \in {"{", "["} THEN
        MaxNesting(toks, j + 1, level + 1, IF level + 1 > best THEN level + 1 ELSE best)
    ELSE IF toks[j].kind \in {"}", "]"} THEN MaxNesting(toks, j + 1, level - 1, best)
    ELSE MaxNesting(toks, j + 1, level, best)

Fail(i) == [ok |-> FALSE, i |-> i, out |-> <<>>, n |-> 0]
Done(i, out, n) == [ok |-> TRUE, i |-> i, out |-> out, n |-> n]

\* An object strictly shallower than max_depth is descended into; at the limit
\* (and, below an array that sits at the limit, past it) it is captured raw.
Descend(depth, options) == depth < options.max_depth

\* the entry of an object that is descended into
ObjectEntry(key, raw, in_array, options) ==
    IF options.keep_object_raw_data THEN <<<<key, Some(raw)>>>>
    ELSE IF in_array THEN <<<<key, None>>>>
    ELSE <<>>

\* two consecutive runs of entries; n counts the members or elements
Joined(r, m) == IF m.ok THEN Done(m.i, r.out \o m.out, m.n + 1) ELSE m

\* the entries of a container that was descended into, after its own entry
Under(own, m) == IF m.ok THEN Done(m.i, own \o m.out, 0) ELSE m

RECURSIVE ParseValue(_, _, _, _, _, _)
RECURSIVE ObjectMembers(_, _, _, _, _, _)
RECURSIVE AfterMember(_, _, _, _, _)
RECURSIVE ArrayElements(_, _, _, _, _, _)
RECURSIVE AfterElement(_, _, _, _, _)

\* the members of an object, i being the token after "{" or ","
ObjectMembers(cx, route, depth, count, i, first) ==
    IF cx.toks[i].kind = "}" THEN (IF first THEN Done(i + 1, <<>>, 0) ELSE Fail(i))
    ELSE IF cx.toks[i].kind # "str" \/ cx.toks[i + 1].kind # ":" THEN Fail(i)
    ELSE AfterMember(cx, route, depth, count,
                     ParseValue(cx, concat_string(<<route, <<"/">>, cx.toks[i].v>>),
                                depth, count, FALSE, i + 2))

\* what follows the member value r: "," and more members, or "}"
AfterMember(cx, route, depth, count, r) ==
    IF ~r.ok THEN r
    ELSE IF cx.toks[r.i].kind = ","
    THEN Joined(r, ObjectMembers(cx, route, depth, count, r.i + 1, FALSE))
    ELSE IF cx.toks[r.i].kind = "}" THEN Done(r.i + 1, r.out, 1)
    ELSE Fail(r.i)

\* the elements of an array from element k on, i being the token after "[" or ","
ArrayElements(cx, route, depth, k, i, first) ==
    IF cx.toks[i].kind = "]" THEN (IF first THEN Done(i + 1, <<>>, 0) ELSE Fail(i))
    ELSE AfterElement(cx, route, depth, k,
                      ParseValue(cx, concat_string(<<route, <<"/">>, to_string(k)>>),
                                 depth, k, TRUE, i))

\* what follows the element value r: "," and more elements, or "]"
AfterElement(cx, route, depth, k, r) ==
    IF ~r.ok THEN r
    ELSE IF cx.toks[r.i].kind = ","
    THEN Joined(r, ArrayElements(cx, route, depth, k + 1, r.i + 1, FALSE))
    ELSE IF cx.toks[r.i].kind = "]" THEN Done(r.i + 1, r.out, 1)
    ELSE Fail(r.i)

\* the entry of an array that was descended into, then its elements
ArrayDone(key, e) ==
    IF e.ok
    THEN Done(e.i, <<<<[key EXCEPT !.value_type = Array(e.n)], None>>>> \o e.out, 0)
    ELSE e

\* one value at token i, emitted under pointer route at the given depth; j is the
\* token closing it when it is a container
ValueAt(cx, route, depth, count, in_array, i, j, key) ==
    IF cx.toks[i].kind = "str"
    THEN Done(i + 1, <<<<[key EXCEPT !.value_type = String], Some(cx.toks[i].v)>>>>, 0)
    ELSE IF cx.toks[i].kind = "num"
    THEN Done(i + 1, <<<<[key EXCEPT !.value_type = Number], Some(cx.toks[i].v)>>>>, 0)
    ELSE IF cx.toks[i].kind = "bool"
    THEN Done(i + 1, <<<<[key EXCEPT !.value_type = Bool], Some(cx.toks[i].v)>>>>, 0)
    ELSE IF cx.toks[i].kind = "null"
    THEN Done(i + 1, <<<<[key EXCEPT !.value_type = Null], None>>>>, 0)
    ELSE IF cx.toks[i].kind = "{" THEN
        IF j = 0 THEN Fail(i)
        ELSE IF Descend(depth, cx.options)
        THEN Under(ObjectEntry(key, RawSpan(cx, i, j), in_array, cx.options),
                   ObjectMembers(cx, route, depth + 1, count, i + 1, TRUE))
        ELSE Done(j + 1, <<<<key, Some(RawSpan(cx, i, j))>>>>, 0)
    ELSE IF cx.toks[i].kind = "[" THEN
        IF j = 0 THEN Fail(i)
        ELSE IF ~cx.options.parse_array
        THEN Done(j + 1, <<<<[key EXCEPT !.value_type = Array(0)], Some(RawSpan(cx, i, j))>>>>, 0)
        ELSE IF depth = MaxU8 THEN Fail(i)
        ELSE ArrayDone(key, ArrayElements(cx, route, depth + 1, 0, i + 1, TRUE))
    ELSE Fail(i)

ParseValue(cx, route, depth, count, in_array, i) ==
    ValueAt(cx, route, depth, count, in_array, i, MatchClose(cx.toks, i),
            PointerKey(route, Object, depth, count, cx.toks[i].s - 1))

\* the result of a parse whose root object produced m
Parsed(toks, options, depth, m) ==
    IF ~m.ok \/ toks[m.i].kind # "eof" THEN Err
    ELSE Ok(ParseResult(m.out,
                        depth - 1 + MaxNesting(toks, 1, 0, 0),
                        options.max_depth,
                        options.start_parse_at,
                        options.prefix))

\* the parse of a token stream: the root is an object, whose members are emitted
\* at the given depth, under options.prefix
ParseTokens(text, options, depth, lx) ==
    IF ~lx.ok THEN Err
    ELSE IF lx.toks[1].kind # "{" THEN Err
    ELSE Parsed(lx.toks, options, depth,
                ObjectMembers([text |-> text, toks |-> lx.toks, options |-> options],
                              IF options.prefix = None THEN <<>> ELSE options.prefix[1],
                              depth, 0, 2, TRUE))

\* Parser::new(Lexer::new(text)).parse(&options, depth, arena)
Parser_parse(text, options, depth) == ParseTokens(text, options, depth, Lexer(text))

----------------------------------------------------------------------------
(* JSONParser *)

\* variant: the document's members are counted from depth 0
JSONParser_parse_from_zero(text, options) == Parser_parse(text, options, 0)

\* JSONParser::parse
JSONParser_parse(text, options) == Parser_parse(text, options, 1)

\* variant: an equal limit also takes the widening branch
Widens_or_equal(previous_parse_result, parse_options) ==
    previous_parse_result.parsing_max_depth <= parse_options.max_depth

\* variant: any different limit takes the widening branch
Widens_unless_equal(previous_parse_result, parse_options) ==
    previous_parse_result.parsing_max_depth # parse_options.max_depth

\* line 207: change_depth widens only towards a strictly greater limit
Widens(previous_parse_result, parse_options) ==
    previous_parse_result.parsing_max_depth < parse_options.max_depth

\* variant: objects above the previous limit are re-parsed too
AtPreviousLimit_or_above(k, previous_parse_result) ==
    k.depth <= previous_parse_result.parsing_max_depth

\* line 214: the object entries that are re-parsed
AtPreviousLimit(k, previous_parse_result) ==
    k.depth = previous_parse_result.parsing_max_depth

\* variant: the raw text is re-parsed at the depth of its own entry
StartDepth_of_entry(k) == k.depth

\* line 220: the depth at which the raw text of entry k is re-parsed
StartDepth(k) == Add8(k.depth, 1)

\* line 209: the capacity of the new list
Capacity(previous_parse_result, parse_options) ==
    LET previous_len == Len(previous_parse_result.json) IN
    previous_len
      + Sub8(parse_options.max_depth, previous_parse_result.parsing_max_depth)
        * (previous_len \div 3)

\* lines 216-221: what a re-parsed object entry contributes to the new list
Spliced(k, v, res) == <<<<k, Some(v)>>>> \o res.json

\* variant: the metadata is taken from the options as the loop left them
Widened_from_options(previous_parse_result, parse_options, new_flat_json_structure) ==
    ParseResult(new_flat_json_structure,
                previous_parse_result.max_json_depth,
                parse_options.max_depth,
                parse_options.start_parse_at,
                parse_options.prefix)

\* lines 229-235
Widened(previous_parse_result, parse_options, new_flat_json_structure) ==
    ParseResult(new_flat_json_structure,
                previous_parse_result.max_json_depth,
                parse_options.max_depth,
                previous_parse_result.started_parsing_at,
                previous_parse_result.parsing_prefix)

\* lines 211, 214, 215: the entry is an object at the previous limit that holds raw text
Reparsed(k, v, previous_parse_result) ==
    /\ k.value_type.t = "Object"
    /\ AtPreviousLimit(k, previous_parse_result)
    /\ v # None

\* lines 211, 214, 215: the entry is pushed as it is (an object at the previous
\* limit whose value is None matches neither push)
CarriedOver(k, v, previous_parse_result) ==
    \/ k.value_type.t # "Object"
    \/ ~AtPreviousLimit(k, previous_parse_result)

\* lines 210-228: the loop over the previous entries, from entry i on; starts
\* collects the exact values of k.depth + 1 that line 220 evaluates
RECURSIVE WidenFrom(_, _, _, _, _)
RECURSIVE Reparse(_, _, _, _, _, _, _, _)

WidenFrom(previous_parse_result, parse_options, i, new_flat_json_structure, starts) ==
    IF i > Len(previous_parse_result.json)
    THEN [res |-> Ok(Widened(previous_parse_result, parse_options, new_flat_json_structure)),
          starts |-> starts]
    ELSE IF Reparsed(previous_parse_result.json[i][1], previous_parse_result.json[i][2],
                     previous_parse_result)
    THEN Reparse(previous_parse_result,
                 [parse_options EXCEPT !.prefix = Some(previous_parse_result.json[i][1].pointer)],
                 i, new_flat_json_structure, starts,
                 previous_parse_result.json[i][1], previous_parse_result.json[i][2][1],
                 Parser_parse(previous_parse_result.json[i][2][1],
                              [parse_options EXCEPT
                                 !.prefix = Some(previous_parse_result.json[i][1].pointer)],
                              StartDepth(previous_parse_result.json[i][1])))
    ELSE WidenFrom(previous_parse_result, parse_options, i + 1,
                   IF CarriedOver(previous_parse_result.json[i][1],
                                  previous_parse_result.json[i][2], previous_parse_result)
                   THEN Append(new_flat_json_structure, previous_parse_result.json[i])
                   ELSE new_flat_json_structure,
                   starts)

\* lines 216-221: entry i, the object k with raw text v, was re-parsed into res
Reparse(previous_parse_result, parse_options, i, new_flat_json_structure, starts, k, v, res) ==
    IF ~res.ok
    THEN [res |-> Err, starts |-> starts \cup {k.depth + 1}]
    ELSE WidenFrom(previous_parse_result, parse_options, i + 1,
                   new_flat_json_structure \o Spliced(k, v, res.val),
                   starts \cup {k.depth + 1})

\* the outcome of a widening change_depth with the exact values of its u8 expressions
WidenRun(previous_parse_result, parse_options, w) ==
    [res |-> w.res,
     arith |-> w.starts
               \cup {parse_options.max_depth - previous_parse_result.parsing_max_depth}]

\* JSONParser::change_depth, with the exact values of its u8 expressions
change_depth_run(previous_parse_result, parse_options) ==
    IF Widens(previous_parse_result, parse_options)
    THEN WidenRun(previous_parse_result, parse_options,
                  WidenFrom(previous_parse_result, parse_options, 1, <<>>, {}))
    ELSE [res |-> Ok(previous_parse_result), arith |-> {}]

change_depth(previous_parse_result, parse_options) ==
    change_depth_run(previous_parse_result, parse_options).res

\* JsonArrayEntries::find_node_at, from entry i on
RECURSIVE find_from(_, _, _)
find_from(entries, pointer, i) ==
    IF i > Len(entries) THEN None
    ELSE IF entries[i][1].pointer = pointer THEN Some(entries[i])
    ELSE find_from(entries, pointer, i + 1)

find_node_at(row, pointer) == find_from(row.entries, pointer, 1)

\* line 247
pointer_to_find(pfx, row, pointer) ==
    concat_string(<<pfx, <<"/">>, to_string(row.index), pointer>>)

\* variant: a column that is absent from the row does not exclude the row
RECURSIVE should_add_row_absent_kept(_, _, _, _)
should_add_row_absent_kept(row, pfx, columns, i) ==
    IF i > Len(columns) THEN TRUE
    ELSE LET found == find_node_at(row, pointer_to_find(pfx, row, columns[i])) IN
         IF found # None
         THEN IF found[1][2] = None THEN FALSE
              ELSE should_add_row_absent_kept(row, pfx, columns, i + 1)
         ELSE should_add_row_absent_kept(row, pfx, columns, i + 1)

\* lines 245-257: the loop over non_null_columns, from column i on
RECURSIVE should_add_row(_, _, _, _)
should_add_row(row, pfx, columns, i) ==
    IF i > Len(columns) THEN TRUE
    ELSE LET found == find_node_at(row, pointer_to_find(pfx, row, columns[i])) IN
         IF found # None
         THEN IF found[1][2] = None THEN FALSE
              ELSE should_add_row(row, pfx, columns, i + 1)
         ELSE FALSE

\* JSONParser::filter_non_null_column
RECURSIVE filter_non_null_column(_, _, _)
filter_non_null_column(previous_parse_result, pfx, columns) ==
    IF previous_parse_result = <<>> THEN <<>>
    ELSE LET row == Head(previous_parse_result)
             rest == filter_non_null_column(Tail(previous_parse_result), pfx, columns)
         IN  IF should_add_row(row, pfx, columns, 1) THEN <<row>> \o rest ELSE rest

----------------------------------------------------------------------------
(* Inputs *)

\* {"a":{"b":{"c":1}}}
DocNested ==
    <<"{", Q, "a", Q, ":", "{", Q, "b", Q, ":", "{", Q, "c", Q, ":", "1", "}", "}", "}">>
\* {"a":{"b":{"c":{"d":1}}},"e":2}
DocDeep ==
    <<"{", Q, "a", Q, ":", "{", Q, "b", Q, ":", "{", Q, "c", Q, ":", "{", Q, "d", Q,
      ":", "1", "}", "}", "}", ",", Q, "e", Q, ":", "2", "}">>
\* {"l":[{"x":1},{"x":null}]}
DocRows ==
    <<"{", Q, "l", Q, ":", "[", "{", Q, "x", Q, ":", "1", "}", ",", "{", Q, "x", Q,
      ":", "n", "u", "l", "l", "}", "]", "}">>
\* {"a":{"l":[{"b":{"c":1}}]}}
DocArrayAtTwo ==
    <<"{", Q, "a", Q, ":", "{", Q, "l", Q, ":", "[", "{", Q, "b", Q, ":", "{", Q, "c",
      Q, ":", "1", "}", "}", "]", "}", "}">>
\* {"a":{"b":1},"a":{"b":2}}
DocDuplicate ==
    <<"{", Q, "a", Q, ":", "{", Q, "b", Q, ":", "1", "}", ",", Q, "a", Q, ":", "{", Q,
      "b", Q, ":", "2", "}", "}">>
\* {"a": {"s": "t", "f": true}, "n": null, "o": {}}
DocSpaced ==
    <<"{", Q, "a", Q, ":", " ", "{", Q, "s", Q, ":", " ", Q, "t", Q, ",", " ", Q, "f",
      Q, ":", " ", "t", "r", "u", "e", "}", ",", " ", Q, "n", Q, ":", " ", "n", "u",
      "l", "l", ",", " ", Q, "o", Q, ":", " ", "{", "}", "}">>
\* {"a":}
DocMalformed ==
    <<"{", Q, "a", Q, ":", "}">>
\* {"a
DocUnterminated ==
    <<"{", Q, "a">>

Docs == {DocNested, DocDeep, DocRows, DocArrayAtTwo, DocDuplicate, DocSpaced,
         DocMalformed, DocUnterminated}

DepthChoices == (0 .. MaxDepthOpt) \cup {MaxU8}
PrefixChoices == {None, Some(<<"/", "p">>)}

OptionChoices ==
    {ParseOptions(parse_array, keep, max_depth, None, pfx) :
        parse_array \in BOOLEAN, keep \in BOOLEAN,
        max_depth \in DepthChoices, pfx \in PrefixChoices}

\* impl Default for ParseOptions
DefaultOptions == ParseOptions(TRUE, TRUE, 10, None, None)

EmptyResult == ParseResult(<<>>, 0, 0, None, None)

\* ParseResults written as struct literals (every field of ParseResult and of
\* PointerKey is public), among them depths next to the u8 limit
RawNested == <<"{", Q, "c", Q, ":", "{", Q, "d", Q, ":", "1", "}", "}">>
RawArray == <<"{", Q, "l", Q, ":", "[", "1", "]", "}">>
RawMalformed == <<"{", Q, "c", Q, ":", "}">>

BuiltDeep ==
    ParseResult(<<<<from_pointer(<<"/", "a">>, Object, MaxU8 - 1, 0), Some(RawNested)>>>>,
                MaxU8 - 1, MaxU8 - 1, Some(<<"/", "s">>), Some(<<"/", "q">>))
BuiltDeepArray ==
    ParseResult(<<<<from_pointer(<<"/", "a">>, Object, MaxU8 - 1, 0), Some(RawArray)>>>>,
                MaxU8 + 1, MaxU8 - 1, None, None)
BuiltNoText ==
    ParseResult(<<<<from_pointer(<<"/", "r", "/", "a">>, Object, 2, 5), None>>,
                  <<from_pointer(<<"/", "r", "/", "b">>, Number, 2, 9), Some(<<"1">>)>>>>,
                2, 2, None, None)
BuiltMalformed ==
    ParseResult(<<<<from_pointer(<<"/", "a">>, Object, 1, 5), Some(RawMalformed)>>>>,
                1, 1, None, None)
BuiltRootArray ==
    ParseResult(<<<<from_pointer(<<>>, Array(1), 0, 0), None>>,
                  <<from_pointer(<<"/", "0">>, Number, 1, 1), Some(<<"7">>)>>>>,
                1, 1, None, None)

BuiltResults == {BuiltDeep, BuiltDeepArray, BuiltNoText, BuiltMalformed, BuiltRootArray}

\* the rows of a flattened top-level array [{..}, {..}, ..] under a prefix
Column(pfx, index, name, value_type, value) ==
    <<PointerKey(concat_string(<<pfx, <<"/">>, to_string(index), <<"/">>, name>>),
                 value_type, 2, index, 0), value>>

RowOf(pfx, index, columns) ==
    JsonArrayEntries(
        <<<<PointerKey(concat_string(<<pfx, <<"/">>, to_string(index)>>), Object, 1, index, 0),
            None>>>> \o columns,
        index)

RowChoices(pfx) ==
    { RowOf(pfx, 0, <<Column(pfx, 0, <<"x">>, Number, Some(<<"1">>)),
                      Column(pfx, 0, <<"y">>, Number, Some(<<"2">>))>>),
      RowOf(pfx, 1, <<Column(pfx, 1, <<"x">>, Null, None),
                      Column(pfx, 1, <<"y">>, Number, Some(<<"2">>))>>),
      RowOf(pfx, 2, <<Column(pfx, 2, <<"y">>, String, Some(<<>>))>>),
      RowOf(pfx, 10, <<Column(pfx, 10, <<"x">>, Number, Some(<<"3">>))>>) }

RowPrefixChoices == {<<>>, <<"/", "p">>}
ColumnChoices == {<<"/", "x">>, <<"/", "y">>}

SeqsUpTo(S, n) == UNION {[1 .. m -> S] : m \in 0 .. n}

----------------------------------------------------------------------------
(* The state machine *)

Init ==
    /\ op = "init"
    /\ input = <<>>
    /\ first_options = DefaultOptions
    /\ result = NoResult
    /\ previous = EmptyResult
    /\ requested = DefaultOptions
    /\ origin = "none"
    /\ steps = 0
    /\ all_keep = TRUE
    /\ arith = {}
    /\ rows = <<>>
    /\ prefix = <<>>
    /\ non_null_columns = <<>>
    /\ filtered = NoResult

\* JSONParser::new(input)
New(doc) ==
    /\ op = "init"
    /\ op' = "new"
    /\ input' = doc
    /\ UNCHANGED <<first_options, result, previous, requested, origin, steps, all_keep,
                   arith, rows, prefix, non_null_columns, filtered>>

\* JSONParser::parse(options, arena)
Parse(options) ==
    /\ op = "new"
    /\ op' = "parse"
    /\ first_options' = options
    /\ result' = JSONParser_parse(input, options)
    /\ origin' = "parse"
    /\ all_keep' = options.keep_object_raw_data
    /\ UNCHANGED <<input, previous, requested, steps, arith, rows, prefix,
                   non_null_columns, filtered>>

\* a caller writes a ParseResult as a struct literal
Build(r) ==
    /\ op = "init"
    /\ op' = "build"
    /\ result' = Ok(r)
    /\ origin' = "built"
    /\ UNCHANGED <<input, first_options, previous, requested, steps, all_keep, arith,
                   rows, prefix, non_null_columns, filtered>>

\* JSONParser::change_depth(result, options, arena)
ChangeDepth(options) ==
    /\ op \in {"parse", "build", "change_depth"}
    /\ result.ok
    /\ steps < MaxSteps
    /\ op' = "change_depth"
    /\ previous' = result.val
    /\ requested' = options
    /\ \E run \in {change_depth_run(result.val, options)} :
          /\ result' = run.res
          /\ arith' = run.arith
    /\ steps' = steps + 1
    /\ all_keep' = (all_keep /\ options.keep_object_raw_data)
    /\ UNCHANGED <<input, first_options, origin, rows, prefix, non_null_columns, filtered>>

\* JSONParser::filter_non_null_column(&rows, prefix, &non_null_columns)
FilterNonNullColumn(given_rows, pfx, columns) ==
    /\ op = "init"
    /\ op' = "filter"
    /\ rows' = given_rows
    /\ prefix' = pfx
    /\ non_null_columns' = columns
    /\ filtered' = Ok(filter_non_null_column(given_rows, pfx, columns))
    /\ UNCHANGED <<input, first_options, result, previous, requested, origin, steps,
                   all_keep, arith>>

Next ==
    \/ \E doc \in Docs : New(doc)
    \/ \E options \in OptionChoices : Parse(options)
    \/ \E r \in BuiltResults : Build(r)
    \/ \E options \in OptionChoices : ChangeDepth(options)
    \/ \E row_prefix \in RowPrefixChoices, pfx \in RowPrefixChoices :
         \E given_rows \in SeqsUpTo(RowChoices(row_prefix), MaxRows),
            columns \in SeqsUpTo(ColumnChoices, MaxRows) :
              FilterNonNullColumn(given_rows, pfx, columns)

Spec == Init /\ [][Next]_vars

----------------------------------------------------------------------------
(* Vocabulary of the properties *)

Indices(json) == 1 .. Len(json)

\* the set of (pointer, value) pairs of a result
Pairs(r) == {<<r.json[i][1].pointer, r.json[i][2]>> : i \in Indices(r.json)}

IsPrefixOf(p, q) == Len(p) <= Len(q) /\ SubSeq(q, 1, Len(p)) = p

\* number of path segments of pointer below the pointer base
SegmentsBelow(base, pointer) ==
    Cardinality({i \in (Len(base) + 1) .. Len(pointer) : pointer[i] = "/"})

PrefixText(pfx) == IF pfx = None THEN <<>> ELSE pfx[1]

\* the text of the container that starts at 0-based offset pos of text: the
\* shortest slice from pos whose brackets balance
Balance(text, p, q) ==
    Cardinality({i \in p .. q : text[i] \in {"{", "["}})
      - Cardinality({i \in p .. q : text[i] \in {"}", "]"}})

ContainerText(text, pos) ==
    LET p == pos + 1
        q == CHOOSE q \in p .. Len(text) :
                /\ Balance(text, p, q) = 0
                /\ \A q2 \in p .. (q - 1) : Balance(text, p, q2) > 0
    IN  SubSeq(text, p, q)

\* the last change_depth widened: it was asked for a strictly greater limit
Widening == op = "change_depth" /\ previous.parsing_max_depth < requested.max_depth

\* the result was parsed from input and widened once, with the options of the parse
\* but for a greater max_depth
WidenedOnce ==
    /\ op = "change_depth"
    /\ origin = "parse"
    /\ steps = 1
    /\ first_options.max_depth < requested.max_depth
    /\ requested = [first_options EXCEPT !.max_depth = requested.max_depth]

----------------------------------------------------------------------------
(* C1 *)

\* C1 (as claimed): for every document and depth limits d1 < d2, change_depth of
\* parse(doc, d1) to d2 has the same set of (pointer, value) pairs as parse(doc, d2)
\* with otherwise identical options.
C1_WideningEquivalence ==
    WidenedOnce =>
        /\ result.ok
        /\ JSONParser_parse(input, requested).ok
        /\ Pairs(result.val) = Pairs(JSONParser_parse(input, requested).val)

----------------------------------------------------------------------------
(* C2 *)

\* the entries of the parse of input without a depth limit
Unlimited == JSONParser_parse(input, [first_options EXCEPT !.max_depth = MaxU8]).val.json

\* an object exactly at the limit is one entry holding its raw text, nothing below it
CapturedAtLimit ==
    \A i \in Indices(result.val.json) :
        LET k == result.val.json[i][1] IN
        (k.value_type.t = "Object" /\ k.depth = first_options.max_depth) =>
            /\ result.val.json[i][2] = Some(ContainerText(input, k.position))
            /\ \A j \in Indices(result.val.json) :
                  ~IsPrefixOf(k.pointer \o <<"/">>, result.val.json[j][1].pointer)

\* every value whose parent is strictly shallower than the limit is emitted
FlattenedAboveLimit ==
    \A i \in Indices(Unlimited) :
        LET f == Unlimited[i][1] IN
        f.depth <= first_options.max_depth =>
            \E j \in Indices(result.val.json) :
                /\ result.val.json[j][1].pointer = f.pointer
                /\ result.val.json[j][1].value_type = f.value_type
                /\ result.val.json[j][1].depth = f.depth
                /\ f.value_type.t # "Object" => result.val.json[j][2] = Unlimited[i][2]

PointerAB == <<"/", "a", "/", "b">>
RawC == <<"{", Q, "c", Q, ":", "1", "}">>

\* {"a":{"b":{"c":1}}} with max_depth = 2: /a/b is an Object with raw {"c":1}, no /a/b/c
ExampleAtTwo ==
    (input = DocNested /\ first_options.max_depth = 2 /\ first_options.prefix = None) =>
        /\ \E i \in Indices(result.val.json) :
              /\ result.val.json[i][1].pointer = PointerAB
              /\ result.val.json[i][1].value_type = Object
              /\ result.val.json[i][2] = Some(RawC)
        /\ \A i \in Indices(result.val.json) :
              result.val.json[i][1].pointer # PointerAB \o <<"/", "c">>

\* C2: in a parse with limit max_depth an object at depth == max_depth is one entry
\* of type Object whose value is its raw text, with no entry below it; everything
\* strictly shallower is flattened; the example of {"a":{"b":{"c":1}}} at max_depth 2.
C2_DepthLimitCapture ==
    (op = "parse" /\ result.ok) =>
        CapturedAtLimit /\ FlattenedAboveLimit /\ ExampleAtTwo

C2_Witness ==
    /\ op = "parse"
    /\ result.ok
    /\ input = DocNested
    /\ first_options.max_depth = 2
    /\ first_options.prefix = None
    /\ \E i \in Indices(result.val.json) :
          /\ result.val.json[i][1].pointer = PointerAB
          /\ result.val.json[i][1].depth = 2
          /\ result.val.json[i][2] = Some(RawC)

----------------------------------------------------------------------------
(* C3 *)

\* C3: when the requested max_depth is not strictly greater than the previous
\* parsing_max_depth, change_depth returns the previous result unchanged (entries,
\* order and all four metadata fields); hence applying change_depth a second time
\* with the same depth changes nothing.
C3_NoOpIdempotent ==
    /\ (op = "change_depth" /\ ~(previous.parsing_max_depth < requested.max_depth)) =>
          result = Ok(previous)
    /\ (op = "change_depth" /\ result.ok) =>
          change_depth(result.val, requested) = result

\* a change_depth to exactly the previous limit, on a result that holds raw
\* objects at that limit
C3_Witness ==
    /\ op = "change_depth"
    /\ previous.parsing_max_depth = requested.max_depth
    /\ \E i \in Indices(previous.json) :
          /\ previous.json[i][1].value_type.t = "Object"
          /\ previous.json[i][1].depth = previous.parsing_max_depth
          /\ previous.json[i][2] # None
    /\ result = Ok(previous)

----------------------------------------------------------------------------
(* C4 *)

\* the entries that re-parsing the raw text of entry i of r yields under the options
SubEntries(r, options, i) ==
    LET k == r.json[i][1]
        v == r.json[i][2]
        res == Parser_parse(v[1], [options EXCEPT !.prefix = Some(k.pointer)], k.depth + 1)
    IN  IF k.value_type.t = "Object" /\ k.depth = r.parsing_max_depth /\ v # None /\ res.ok
        THEN res.val.json
        ELSE <<>>

\* every previous entry from i on, in order, each followed by its sub-entries
RECURSIVE CarriedAndSpliced(_, _, _)
CarriedAndSpliced(r, options, i) ==
    IF i > Len(r.json) THEN <<>>
    ELSE <<r.json[i]>> \o SubEntries(r, options, i) \o CarriedAndSpliced(r, options, i + 1)

\* C4 (as claimed): when change_depth widens, every entry of the previous result
\* is in the new result, unchanged and in the same order, the objects at the
\* previous limit included; the entries re-parsed from such an object follow it
\* immediately, before the next carried-over entry.
C4_CarryOverAndSplice ==
    (Widening /\ result.ok) =>
        result.val.json = CarriedAndSpliced(previous, requested, 1)

----------------------------------------------------------------------------
(* C5 *)

Digit(n) == <<"0", "1", "2", "3", "4", "5", "6", "7", "8", "9">>[n + 1]

\* the decimal numeral of an index below 100
Numeral(n) == IF n < 10 THEN <<Digit(n)>> ELSE <<Digit(n \div 10), Digit(n % 10)>>

\* the row has the column: prefix/index/suffix is a pointer of the row whose value is not None
HasColumn(row, suffix) ==
    \E i \in Indices(row.entries) :
        /\ row.entries[i][1].pointer = prefix \o <<"/">> \o Numeral(row.index) \o suffix
        /\ row.entries[i][2] # None

HasEveryColumn(row) ==
    \A c \in Indices(non_null_columns) : HasColumn(row, non_null_columns[c])

\* C5: filter_non_null_column returns exactly the rows, in input order and
\* unmodified, for which every suffix gives a pointer prefix/index/suffix present in
\* the row with a value that is not None; absent and None both exclude the row.
C5_FilterNonNullColumn ==
    op = "filter" =>
        /\ filtered.ok
        /\ filtered.val = SelectSeq(rows, HasEveryColumn)

\* one row excluded for an absent column, or for a None column, and one row kept
C5_Witness ==
    /\ op = "filter"
    /\ Len(rows) = 2
    /\ Len(non_null_columns) > 0
    /\ Len(filtered.val) = 1
    /\ \E r \in 1 .. 2, c \in Indices(non_null_columns) :
          \E i \in Indices(rows[r].entries) :
              /\ rows[r].entries[i][1].pointer
                   = prefix \o <<"/">> \o Numeral(rows[r].index) \o non_null_columns[c]
              /\ rows[r].entries[i][2] = None

----------------------------------------------------------------------------
(* C6 *)

\* number of containers open at token k of a token stream
Level(toks, k) ==
    Cardinality({m \in 1 .. (k - 1) : toks[m].kind \in {"{", "["}})
      - Cardinality({m \in 1 .. (k - 1) : toks[m].kind \in {"}", "]"}})

\* the tokens that are member names
Names(toks) == {k \in 1 .. (Len(toks) - 1) : toks[k].kind = "str" /\ toks[k + 1].kind = ":"}

\* the token opening the object that token k is directly in
Owner(toks, k) ==
    CHOOSE i \in 1 .. (k - 1) :
        /\ toks[i].kind = "{"
        /\ Level(toks, i) = Level(toks, k) - 1
        /\ \A m \in (i + 1) .. (k - 1) :
              ~(toks[m].kind = "{" /\ Level(toks, m) = Level(toks, k) - 1)

\* no object of the document has two members of the same name
DistinctNames(text) ==
    LET toks == Lexer(text).toks IN
    \A k1, k2 \in Names(toks) :
        (k1 < k2 /\ Owner(toks, k1) = Owner(toks, k2)) => toks[k1].v # toks[k2].v

UniquePointers(json) ==
    \A i, j \in Indices(json) : i # j => json[i][1].pointer # json[j][1].pointer

----------------------------------------------------------------------------
(* C7 *)

Below(k) ==
    {i \in Indices(result.val.json) :
        IsPrefixOf(k.pointer \o <<"/">>, result.val.json[i][1].pointer)}

----------------------------------------------------------------------------
(* C8 *)

SlashesOf(pointer) == {i \in 1 .. Len(pointer) : pointer[i] = "/"}

Greatest(S) == CHOOSE x \in S : \A y \in S : y <= x

\* the pointer cut at its last "/"
Truncated(pointer) == SubSeq(pointer, 1, Greatest(SlashesOf(pointer)) - 1)

HasEntryAt(pointer) ==
    \E j \in Indices(result.val.json) : result.val.json[j][1].pointer = pointer

\* C8 (as claimed): parent() is the pointer truncated at its last "/", and "/" for
\* the document root; the parent() of every entry with a non-root pointer is the
\* pointer of an entry of the result (the root is not elided by the depth limit).
C8_ParentIsAncestorEntry ==
    (origin = "parse" /\ result.ok) =>
        \A i \in Indices(result.val.json) :
            LET pointer == result.val.json[i][1].pointer IN
            /\ parent(pointer) = (IF pointer = <<>> THEN <<"/">> ELSE Truncated(pointer))
            /\ pointer # <<>> => HasEntryAt(parent(pointer))

\* C8 (amended): parent() is the pointer truncated at its last "/", except that it
\* is "/" when that "/" is the first character or there is none; for every entry
\* with two or more segments below the parsing prefix, of a result obtained with
\* keep_object_raw_data = true throughout, parent() is the pointer of an entry of
\* the result.
C8_ParentOfNestedEntry ==
    result.ok =>
        \A i \in Indices(result.val.json) :
            LET pointer == result.val.json[i][1].pointer IN
            /\ parent(pointer)
                 = (IF SlashesOf(pointer) \subseteq {1} THEN <<"/">> ELSE Truncated(pointer))
            /\ (/\ origin = "parse"
                /\ all_keep
                /\ SegmentsBelow(PrefixText(result.val.parsing_prefix), pointer) >= 2) =>
                    HasEntryAt(parent(pointer))

\* a result with a top-level entry, a nested entry under an object and one under
\* an array
C8_Witness ==
    /\ origin = "parse"
    /\ all_keep
    /\ result.ok
    /\ \E i, j, k \in Indices(result.val.json) :
          /\ SlashesOf(result.val.json[i][1].pointer) = {1}
          /\ parent(result.val.json[j][1].pointer) = result.val.json[i][1].pointer
          /\ result.val.json[i][1].value_type.t = "Array"
          /\ SegmentsBelow(<<>>, result.val.json[k][1].pointer) = 3
          /\ HasEntryAt(parent(result.val.json[k][1].pointer))

----------------------------------------------------------------------------
(* C9 *)

\* C9: a widening change_depth returns parsing_max_depth equal to the requested
\* max_depth, and max_json_depth, started_parsing_at and parsing_prefix equal to
\* those of the previous result, whatever the re-parsed sub-results report and
\* although the options' prefix is overwritten for each re-parsed object.
C9_WideningMetadata ==
    (Widening /\ result.ok) =>
        /\ result.val.parsing_max_depth = requested.max_depth
        /\ result.val.max_json_depth = previous.max_json_depth
        /\ result.val.started_parsing_at = previous.started_parsing_at
        /\ result.val.parsing_prefix = previous.parsing_prefix

\* a widening that re-parsed an object whose sub-result reports other metadata
C9_Witness ==
    /\ Widening
    /\ result.ok
    /\ requested.prefix # previous.parsing_prefix
    /\ previous.started_parsing_at # requested.start_parse_at
    /\ \E i \in Indices(previous.json) :
          /\ SubEntries(previous, requested, i) # <<>>
          /\ Parser_parse(previous.json[i][2][1],
                          [requested EXCEPT !.prefix = Some(previous.json[i][1].pointer)],
                          previous.json[i][1].depth + 1).val.max_json_depth
               # previous.max_json_depth

----------------------------------------------------------------------------
(* C10 *)

\* C10: for every previous result and requested max_depth in 0..255, the
\* subtraction max_depth - parsing_max_depth and the start depth k.depth + 1 that
\* change_depth evaluates stay within the u8 range.
C10_NoWrap == arith \subseteq 0 .. MaxU8

\* a change_depth that evaluated both expressions, the start depth at the u8 limit
C10_Witness ==
    /\ op = "change_depth"
    /\ MaxU8 \in arith
    /\ requested.max_depth - previous.parsing_max_depth \in arith
    /\ \E i \in Indices(previous.json) : previous.json[i][1].depth + 1 = MaxU8

====
